---- MODULE Spec2Model ----
(***************************************************************************)
(* Model of the arpc message handler (handler.go): the route table filled  *)
(* by Handle, and the dispatcher OnMessage run by several goroutines       *)
(* against the per-client session and async-handler tables.                *)
(*                                                                         *)
(* handler.go calls into the client, the message accessors and the pools   *)
(* (getSession, getAndDeleteAsyncHandler, session.done, memPut, ctxGet,    *)
(* ctxPut, handlePanic); those are modelled at their call shape.           *)
(***************************************************************************)
EXTENDS Integers, Sequences, FiniteSets

VARIABLES
    routes,           \* handler object -> NilRef or the reference of its routes map
    heap,             \* the allocated routes maps: reference -> [method -> HandlerFunc]
    fatal,            \* NoPanic, or the panic that unwound out of Handle / OnMessage
    calls,            \* client -> the calls it issued, indexed by sequence number
    sessionMap,       \* client -> [seq -> session]      (Session table)
    asyncHandlerMap,  \* client -> [seq -> HandlerFunc]  (Async table)
    pc,               \* dispatcher -> position inside OnMessage
    cur,              \* dispatcher -> receiver and arguments (h, c, msg) of the running OnMessage
    ctx,              \* dispatcher -> the Context acquired by ctxGet, or Nil
    fn,               \* dispatcher -> the handler / callback being invoked, or Nil
    sess,             \* dispatcher -> the session returned by getSession, or Nil
    ev,               \* dispatcher -> what the running OnMessage did, in order
    beforeRecv,       \* the handler's pre-receive hook, or Nil
    beforeSend,       \* the handler's pre-send hook, or Nil
    reader,           \* c.Reader: the bytes of the connection not yet read
    head,             \* c.Head: the client's head buffer
    recvRes,          \* what the last Recv returned, and what it acquired
    conn,             \* the connection's write side: the Write / WriteTo calls made
    sendRes,          \* what the last Send / SendN returned
    intBits           \* the width of int in this build

vars == <<routes, heap, fatal, calls, sessionMap, asyncHandlerMap,
          pc, cur, ctx, fn, sess, ev,
          beforeRecv, beforeSend, reader, head, recvRes, conn, sendRes, intBits>>

routeVars  == <<routes, heap>>
clientVars == <<calls, sessionMap, asyncHandlerMap>>
dispVars   == <<pc, cur, ctx, fn, sess, ev>>
recvVars   == <<beforeRecv, reader, head, recvRes>>
sendVars   == <<beforeSend, conn, sendRes, intBits>>
ioVars     == <<recvVars, sendVars>>

Nil == "nil"
\* the nil map (a handler whose routes were never allocated)
NilRef == 0
\* no panic has unwound out of Handle or OnMessage
NoPanic == [op |-> Nil, err |-> Nil, method |-> <<>>]

\* ------------------------------------------------------------------ bounds

\* sequence numbers a client hands out (and that inbound frames may carry)
MaxSeq == 2

\* body bytes a frame on the reader declares, and frames the peer wrote
MaxBody == 2
MaxFrames == 2
\* writes one connection takes
MaxWrites == 2

\* ------------------------------------------------------- program constants

MaxMethodLen == 127
\* capacity of a session's done channel
DoneCap == 1

CmdNone     == "CmdNone"
CmdRequest  == "CmdRequest"
CmdResponse == "CmdResponse"
CmdNotify   == "CmdNotify"
Cmds == {CmdNone, CmdRequest, CmdResponse, CmdNotify}

\* ------------------------------------------------------------ input sets

Handlers    == {"h"}
Clients     == {"c1"}
Dispatchers == {"d1", "d2"}
Seqs        == 1..MaxSeq

\* user code: one function that returns, one that panics
HandlerFuncs == {"fReturn", "fPanic"}
Panics(f) == f = "fPanic"

LongMethod == [i \in 1..(MaxMethodLen + 1) |-> "x"]
\* method names given to Handle
Methods    == {<<>>, <<"a">>, LongMethod}
\* method names carried by inbound frames
MsgMethods == {<<>>, <<"a">>}

\* inbound frames.  OnMessage reads seq and the async flag only of a Response
\* that carries no method name, so the other frames vary less in them.
Messages ==
    [cmd : {CmdRequest, CmdNotify}, seq : {1}, async : {FALSE}, method : MsgMethods]
    \cup [cmd : {CmdResponse}, seq : Seqs, async : BOOLEAN, method : {<<>>}]
    \cup [cmd : {CmdResponse}, seq : {1}, async : BOOLEAN, method : {<<"a">>}]
    \cup [cmd : {CmdNone}, seq : {1}, async : {FALSE}, method : {<<>>}]

\* registrations tried at setup: (method, handler)
Registrations ==
    {<<m, "fReturn">> : m \in Methods} \cup {<< <<"a">>, "fPanic" >>}

\* ------------------------------------------------------ message accessors

Cmd(msg)       == msg.cmd
MsgSeq(msg)    == msg.seq
IsAsync(msg)   == msg.async
MethodLen(msg) == Len(msg.method)
Method(msg)    == msg.method

\* --------------------------------------------------------------- helpers

Count(tr, e) == Cardinality({i \in DOMAIN tr : tr[i] = e})
Has(tr, e)   == \E i \in DOMAIN tr : tr[i] = e
Pos(tr, e)   == CHOOSE i \in DOMAIN tr : tr[i] = e

EmptyMap == [k \in {} |-> Nil]
MapPut(t, k, v) == [x \in DOMAIN t \cup {k} |-> IF x = k THEN v ELSE t[x]]
MapDel(t, k)    == [x \in DOMAIN t \ {k} |-> t[x]]

\* the routes map of handler object h, as looked up by h.routes[method]
Lookup(h) == IF routes[h] = NilRef THEN EmptyMap ELSE heap[routes[h]]

\* ------------------------------------------------------------------ Init

\* a Recv result: the Message and error returned, the buffers it took from
\* the pool and the bytes it read
NoRecv == [msg |-> <<>>, err |-> "not called", memGet |-> 0, read |-> 0]
\* a Send / SendN result: the count and error returned
NoSend == [op |-> Nil, n |-> <<0, 0>>, err |-> "not called"]

\* NewHandler sets no hook; nothing was received or sent yet
InitIO ==
    /\ beforeRecv = Nil
    /\ beforeSend = Nil
    /\ reader = <<>>
    /\ head = <<>>
    /\ recvRes = NoRecv
    /\ conn = <<>>
    /\ sendRes = NoSend
    /\ intBits = 64

\* NewHandler leaves routes nil; a new client has empty tables; no dispatch runs
InitDispatch ==
    /\ routes = [h \in Handlers |-> NilRef]
    /\ heap = <<>>
    /\ fatal = NoPanic
    /\ calls = [c \in Clients |-> <<>>]
    /\ sessionMap = [c \in Clients |-> EmptyMap]
    /\ asyncHandlerMap = [c \in Clients |-> EmptyMap]
    /\ pc = [d \in Dispatchers |-> "idle"]
    /\ cur = [d \in Dispatchers |-> Nil]
    /\ ctx = [d \in Dispatchers |-> Nil]
    /\ fn = [d \in Dispatchers |-> Nil]
    /\ sess = [d \in Dispatchers |-> Nil]
    /\ ev = [d \in Dispatchers |-> <<>>]

Init == InitDispatch /\ InitIO

Running == fatal = NoPanic
AllIdle == \A d \in Dispatchers : pc[d] = "idle"

\* ---------------------------------------------------------------- Handle

\* len(method) > MaxMethodLen
TooLong(method) == Len(method) > MaxMethodLen

\* the duplicate check left out: a second registration overwrites
RegisteredNever(t, method) == FALSE

\* _, ok := h.routes[method]
Registered(t, method) == method \in DOMAIN t

\* h.routes[method] = cb
RoutePut(t, method, cb) == MapPut(t, method, cb)

\* Handle runs at setup, before traffic is dispatched (routes is read without
\* a lock by OnMessage).  A panic of Handle is fatal to the program.
Handle(h, method, cb) ==
    /\ Running
    /\ AllIdle
    /\ LET ref   == IF routes[h] = NilRef THEN Len(heap) + 1 ELSE routes[h]
           heap1 == IF routes[h] = NilRef THEN Append(heap, EmptyMap) ELSE heap
       IN  /\ routes' = [routes EXCEPT ![h] = ref]
           /\ IF TooLong(method)
              THEN /\ heap' = heap1
                   /\ fatal' = [op |-> "Handle", err |-> "invalid method length",
                                method |-> method]
              ELSE IF Registered(heap1[ref], method)
              THEN /\ heap' = heap1
                   /\ fatal' = [op |-> "Handle", err |-> "handler exist",
                                method |-> method]
              ELSE /\ heap' = [heap1 EXCEPT ![ref] = RoutePut(@, method, cb)]
                   /\ fatal' = fatal
    /\ UNCHANGED <<ioVars, clientVars, dispVars>>

\* ------------------------------------------------ the client (call sites)

SessionRef(c, s) == [c |-> c, seq |-> s]

\* a blocking call: take the next sequence number, add its session, wait
Call(c) ==
    /\ Running
    /\ Len(calls[c]) < MaxSeq
    /\ LET s == Len(calls[c]) + 1
       IN  /\ calls' = [calls EXCEPT ![c] =
                  Append(@, [kind |-> "sync", cb |-> Nil, st |-> "waiting",
                             done |-> <<>>, n |-> 0])]
           /\ sessionMap' = [sessionMap EXCEPT ![c] = MapPut(@, s, SessionRef(c, s))]
    /\ UNCHANGED <<ioVars, routeVars, fatal, asyncHandlerMap, dispVars>>

\* an async call: take the next sequence number, register its callback
CallAsync(c, cb) ==
    /\ Running
    /\ Len(calls[c]) < MaxSeq
    /\ LET s == Len(calls[c]) + 1
       IN  /\ calls' = [calls EXCEPT ![c] =
                  Append(@, [kind |-> "async", cb |-> cb, st |-> "pending",
                             done |-> <<>>, n |-> 0])]
           /\ asyncHandlerMap' = [asyncHandlerMap EXCEPT ![c] = MapPut(@, s, cb)]
    /\ UNCHANGED <<ioVars, routeVars, fatal, sessionMap, dispVars>>

\* the waiting caller receives from its session's done channel, then
\* deletes the session
CallerRecv(c, s) ==
    /\ Running
    /\ s \in DOMAIN calls[c]
    /\ calls[c][s].kind = "sync"
    /\ calls[c][s].st = "waiting"
    /\ calls[c][s].done # <<>>
    /\ calls' = [calls EXCEPT ![c][s].st = "got", ![c][s].done = Tail(@)]
    /\ sessionMap' = [sessionMap EXCEPT ![c] = MapDel(@, s)]
    /\ UNCHANGED <<ioVars, routeVars, fatal, asyncHandlerMap, dispVars>>

\* the waiting caller's timer fires: it gives up and deletes the session
CallerTimeout(c, s) ==
    /\ Running
    /\ s \in DOMAIN calls[c]
    /\ calls[c][s].kind = "sync"
    /\ calls[c][s].st = "waiting"
    /\ calls' = [calls EXCEPT ![c][s].st = "timedout"]
    /\ sessionMap' = [sessionMap EXCEPT ![c] = MapDel(@, s)]
    /\ UNCHANGED <<ioVars, routeVars, fatal, asyncHandlerMap, dispVars>>

\* expiry cleanup of an async call whose Response did not arrive
AsyncExpire(c, s) ==
    /\ Running
    /\ s \in DOMAIN asyncHandlerMap[c]
    /\ calls' = [calls EXCEPT ![c][s].st = "expired"]
    /\ asyncHandlerMap' = [asyncHandlerMap EXCEPT ![c] = MapDel(@, s)]
    /\ UNCHANGED <<ioVars, routeVars, fatal, sessionMap, dispVars>>

\* --------------------------------------------- pools, contexts, user code

memPut(tr) == Append(tr, "memPut")
ctxPut(tr) == Append(tr, "ctxPut")
\* ctxGet(c, msg): a Context pairing the client and the message
ctxGet(c, msg) == [client |-> c, msg |-> msg]

\* handlePanic: recover() ends a panic in flight and logs it
handlePanic(tr, panicking) ==
    IF panicking THEN [tr |-> Append(tr, "recover"), panicking |-> FALSE]
                 ELSE [tr |-> tr, panicking |-> FALSE]

\* what the invoked user function does with its Context: a returning
\* handler of a Request writes its Response, a panicking one panics
UserCode(f, c) ==
    IF Panics(f) THEN <<"panic">>
    ELSE IF Cmd(c.msg) = CmdRequest THEN <<"send", "return">>
    ELSE <<"return">>

\* ------------------------------------------------------- the correlator

\* c.getSession(seq): (session, ok)
getSession(c, seq) ==
    IF seq \in DOMAIN sessionMap[c]
    THEN [ok |-> TRUE, session |-> sessionMap[c][seq]]
    ELSE [ok |-> FALSE, session |-> Nil]

\* c.getAndDeleteAsyncHandler(seq): (handler, ok), and the table afterwards
getAndDeleteAsyncHandler(c, seq) ==
    IF seq \in DOMAIN asyncHandlerMap[c]
    THEN [ok |-> TRUE, handler |-> asyncHandlerMap[c][seq],
          after |-> MapDel(asyncHandlerMap[c], seq)]
    ELSE [ok |-> FALSE, handler |-> Nil, after |-> asyncHandlerMap[c]]

\* ------------------------------------------------------------- OnMessage

\* OnMessage returns (its deferred calls have run) with trace tr
Returns(d, tr) ==
    /\ pc' = [pc EXCEPT ![d] = "ret"]
    /\ ev' = [ev EXCEPT ![d] = tr]

\* ctx := ctxGet(c, msg); the two defers are registered; handler(ctx) starts
Invoke(d, c, msg, handler) ==
    /\ ctx' = [ctx EXCEPT ![d] = ctxGet(c, msg)]
    /\ fn' = [fn EXCEPT ![d] = handler]
    /\ pc' = [pc EXCEPT ![d] = "user"]
    /\ ev' = [ev EXCEPT ![d] = <<"ctxGet", "invoke">>]

\* OnRequest without the method-length check of line 192
OnRequestNoLenCheck(h, d, c, msg) ==
    IF Method(msg) \in DOMAIN Lookup(h)
    THEN /\ Invoke(d, c, msg, Lookup(h)[Method(msg)])
         /\ UNCHANGED <<sess, clientVars>>
    ELSE /\ Returns(d, <<"memPut", "warn">>)
         /\ UNCHANGED <<ctx, fn, sess, clientVars>>

\* OnRequest answering an unroutable call with an error Response
OnRequestReplyNoHandler(h, d, c, msg) ==
    IF MethodLen(msg) = 0
    THEN /\ Returns(d, <<"warn">>)
         /\ UNCHANGED <<ctx, fn, sess, clientVars>>
    ELSE IF Method(msg) \in DOMAIN Lookup(h)
    THEN /\ Invoke(d, c, msg, Lookup(h)[Method(msg)])
         /\ UNCHANGED <<sess, clientVars>>
    ELSE /\ Returns(d, <<"send", "memPut", "warn">>)
         /\ UNCHANGED <<ctx, fn, sess, clientVars>>

\* OnRequest routing only CmdRequest: a Notify is released unrouted
OnRequestNotifyUnrouted(h, d, c, msg) ==
    IF MethodLen(msg) = 0
    THEN /\ Returns(d, <<"warn">>)
         /\ UNCHANGED <<ctx, fn, sess, clientVars>>
    ELSE IF Cmd(msg) = CmdRequest /\ Method(msg) \in DOMAIN Lookup(h)
    THEN /\ Invoke(d, c, msg, Lookup(h)[Method(msg)])
         /\ UNCHANGED <<sess, clientVars>>
    ELSE /\ Returns(d, <<"memPut", "warn">>)
         /\ UNCHANGED <<ctx, fn, sess, clientVars>>

\* case CmdRequest, CmdNotify
OnRequest(h, d, c, msg) ==
    IF MethodLen(msg) = 0
    THEN /\ Returns(d, <<"warn">>)
         /\ UNCHANGED <<ctx, fn, sess, clientVars>>
    ELSE IF Method(msg) \in DOMAIN Lookup(h)
    THEN /\ Invoke(d, c, msg, Lookup(h)[Method(msg)])
         /\ UNCHANGED <<sess, clientVars>>
    ELSE /\ Returns(d, <<"memPut", "warn">>)
         /\ UNCHANGED <<ctx, fn, sess, clientVars>>

\* OnResponseSession taking the oldest pending session, as if Responses
\* arrived in the order of the calls
OnResponseSessionInOrder(d, c, msg) ==
    LET pending == DOMAIN sessionMap[c]
    IN  IF pending # {}
        THEN /\ sess' = [sess EXCEPT ![d] =
                    sessionMap[c][CHOOSE s \in pending : \A t \in pending : s <= t]]
             /\ pc' = [pc EXCEPT ![d] = "send"]
             /\ UNCHANGED <<ev, ctx, fn, clientVars>>
        ELSE /\ Returns(d, <<"memPut", "warn">>)
             /\ UNCHANGED <<ctx, fn, sess, clientVars>>

\* case CmdResponse, !msg.IsAsync(): look the session up
OnResponseSession(d, c, msg) ==
    LET seq == MsgSeq(msg)
        r   == getSession(c, seq)
    IN  IF r.ok
        THEN /\ sess' = [sess EXCEPT ![d] = r.session]
             /\ pc' = [pc EXCEPT ![d] = "send"]
             /\ UNCHANGED <<ev, ctx, fn, clientVars>>
        ELSE /\ Returns(d, <<"memPut", "warn">>)
             /\ UNCHANGED <<ctx, fn, sess, clientVars>>

\* OnResponseAsync looking the callback up without removing it
OnResponseAsyncNoDelete(d, c, msg) ==
    LET r == getAndDeleteAsyncHandler(c, MsgSeq(msg))
    IN  IF r.ok
        THEN /\ Invoke(d, c, msg, r.handler)
             /\ calls' = [calls EXCEPT ![c][MsgSeq(msg)].n = @ + 1,
                                       ![c][MsgSeq(msg)].st = "fired"]
             /\ UNCHANGED <<sess, sessionMap, asyncHandlerMap>>
        ELSE /\ Returns(d, <<"memPut", "warn">>)
             /\ UNCHANGED <<ctx, fn, sess, clientVars>>

\* case CmdResponse, msg.IsAsync(): take the callback and invoke it
OnResponseAsync(d, c, msg) ==
    LET r == getAndDeleteAsyncHandler(c, MsgSeq(msg))
    IN  IF r.ok
        THEN /\ asyncHandlerMap' = [asyncHandlerMap EXCEPT ![c] = r.after]
             /\ Invoke(d, c, msg, r.handler)
             /\ calls' = [calls EXCEPT ![c][MsgSeq(msg)].n = @ + 1,
                                       ![c][MsgSeq(msg)].st = "fired"]
             /\ UNCHANGED <<sess, sessionMap>>
        ELSE /\ Returns(d, <<"memPut", "warn">>)
             /\ UNCHANGED <<ctx, fn, sess, clientVars>>

\* OnResponse without the method-length check of line 210
OnResponseNoLenCheck(d, c, msg) ==
    IF ~IsAsync(msg)
    THEN OnResponseSession(d, c, msg)
    ELSE OnResponseAsync(d, c, msg)

\* case CmdResponse
OnResponse(d, c, msg) ==
    IF MethodLen(msg) > 0
    THEN /\ Returns(d, <<"warn">>)
         /\ UNCHANGED <<ctx, fn, sess, clientVars>>
    ELSE IF ~IsAsync(msg)
    THEN OnResponseSession(d, c, msg)
    ELSE OnResponseAsync(d, c, msg)

\* the default branch dropping the frame like the other invalid frames,
\* with a log line and no memPut
OnDefaultNoRelease(d, c, msg) ==
    /\ Returns(d, <<"info">>)
    /\ UNCHANGED <<ctx, fn, sess, clientVars>>

\* default
OnDefault(d, c, msg) ==
    /\ Returns(d, <<"memPut", "info">>)
    /\ UNCHANGED <<ctx, fn, sess, clientVars>>

\* h.OnMessage(c, msg), up to its first return, invocation or channel send
OnMessage(h, d, c, msg) ==
    /\ Running
    /\ pc[d] = "idle"
    /\ cur' = [cur EXCEPT ![d] = [h |-> h, c |-> c, msg |-> msg]]
    /\ IF Cmd(msg) \in {CmdRequest, CmdNotify} THEN OnRequest(h, d, c, msg)
       ELSE IF Cmd(msg) = CmdResponse THEN OnResponse(d, c, msg)
       ELSE OnDefault(d, c, msg)
    /\ UNCHANGED <<ioVars, routeVars, fatal>>

\* session.done <- msg: blocks while the channel is full
SessionSend(d) ==
    /\ Running
    /\ pc[d] = "send"
    /\ LET c == sess[d].c
           s == sess[d].seq
       IN  /\ Len(calls[c][s].done) < DoneCap
           /\ calls' = [calls EXCEPT ![c][s].done = Append(@, cur[d].msg),
                                     ![c][s].n = @ + 1]
    /\ Returns(d, <<"deliver">>)
    /\ UNCHANGED <<ioVars, routeVars, fatal, sessionMap, asyncHandlerMap, cur, ctx, fn, sess>>

\* the release written after handler(ctx) instead of deferred: a panic
\* skips it
DeferredNotDeferred(tr, panicking) ==
    LET r == handlePanic(tr, panicking)
    IN  [tr |-> IF panicking THEN r.tr ELSE memPut(ctxPut(r.tr)),
         panicking |-> r.panicking]

\* the deferred release putting back the message only
DeferredNoCtxPut(tr, panicking) ==
    LET r == handlePanic(tr, panicking)
    IN  [tr |-> memPut(r.tr), panicking |-> r.panicking]

\* the deferred release putting back the message before its Context
DeferredMsgFirst(tr, panicking) ==
    LET r == handlePanic(tr, panicking)
    IN  [tr |-> ctxPut(memPut(r.tr)), panicking |-> r.panicking]

\* the deferred calls of OnMessage, last registered first: handlePanic,
\* then func() { ctxPut(ctx); memPut(msg) }
Deferred(tr, panicking) ==
    LET r == handlePanic(tr, panicking)
    IN  [tr |-> memPut(ctxPut(r.tr)), panicking |-> r.panicking]

\* handler(ctx) runs to its end (return or panic) and OnMessage unwinds
UserCodeEnds(d) ==
    /\ Running
    /\ pc[d] = "user"
    /\ LET u == UserCode(fn[d], ctx[d])
           r == Deferred(ev[d] \o u, Has(u, "panic"))
       IN  /\ Returns(d, r.tr)
           /\ fatal' = IF r.panicking
                       THEN [op |-> "OnMessage", err |-> "panic", method |-> <<>>]
                       ELSE fatal
    /\ UNCHANGED <<ioVars, routeVars, clientVars, cur, ctx, fn, sess>>

\* the caller of OnMessage goes on to its next message
Return(d) ==
    /\ Running
    /\ pc[d] = "ret"
    /\ pc' = [pc EXCEPT ![d] = "idle"]
    /\ cur' = [cur EXCEPT ![d] = Nil]
    /\ ctx' = [ctx EXCEPT ![d] = Nil]
    /\ fn' = [fn EXCEPT ![d] = Nil]
    /\ sess' = [sess EXCEPT ![d] = Nil]
    /\ ev' = [ev EXCEPT ![d] = <<>>]
    /\ UNCHANGED <<ioVars, routeVars, fatal, clientVars>>

\* ------------------------------------------------------------------ Spec

Next ==
    \/ \E h \in Handlers, r \in Registrations : Handle(h, r[1], r[2])
    \/ \E c \in Clients : Call(c)
    \/ \E c \in Clients, cb \in HandlerFuncs : CallAsync(c, cb)
    \/ \E c \in Clients, s \in Seqs : CallerRecv(c, s)
    \/ \E c \in Clients, s \in Seqs : CallerTimeout(c, s)
    \/ \E c \in Clients, s \in Seqs : AsyncExpire(c, s)
    \/ \E h \in Handlers, d \in Dispatchers, c \in Clients, msg \in Messages :
           OnMessage(h, d, c, msg)
    \/ \E d \in Dispatchers : SessionSend(d)
    \/ \E d \in Dispatchers : UserCodeEnds(d)
    \/ \E d \in Dispatchers : Return(d)

Spec == Init /\ [][Next]_vars

\* ------------------------------------------------------------------ Recv

\* The connection's bytes, in the units Recv reads them: a head is the
\* HeadLen bytes of one frame (declaring k body bytes, or a body length the
\* head decoder rejects), a body byte is one byte, a part is the first bytes
\* of a head cut short by the end of the stream, a zero is a byte of a
\* message buffer that was not filled.
HeadTok(k, valid) == [t |-> "head", k |-> k, valid |-> valid]
BodyTok(i)        == [t |-> "body", k |-> i, valid |-> TRUE]
PartTok           == [t |-> "part", k |-> 0, valid |-> FALSE]
ZeroTok           == [t |-> "zero", k |-> 0, valid |-> TRUE]

Frame(k) == <<HeadTok(k, TRUE)>> \o [i \in 1..k |-> BodyTok(i)]
BadFrame == <<HeadTok(0, FALSE)>>
Frames   == {Frame(k) : k \in 0..MaxBody} \cup {BadFrame}

RECURSIVE Wholes(_)
\* what a peer wrote: up to n frames, one after the other
Wholes(n) ==
    IF n = 0 THEN {<<>>}
    ELSE Wholes(n - 1) \cup {w \o f : w \in Wholes(n - 1), f \in Frames}

\* what arrives before the connection ends: what the peer wrote, all of it
\* or cut anywhere, a head possibly cut in the middle
Streams ==
    LET W == Wholes(MaxFrames)
    IN  UNION {{SubSeq(w, 1, i) : i \in 0..Len(w)} : w \in W}
        \cup {w \o <<PartTok>> : w \in W}

\* the hooks a program installs: one that passes, one that rejects
Hooks == {"hookPass", "hookFail"}
HookErr(bh) == IF bh = "hookFail" THEN "hook" ELSE Nil

\* io.ReadFull(c.Reader, c.Head): the whole head, or an error
ReadHead(rd, hd) ==
    IF rd = <<>>
    THEN [err |-> "EOF", head |-> hd, rest |-> rd, read |-> 0]
    ELSE IF rd[1].t = "head"
    THEN [err |-> Nil, head |-> <<rd[1]>>, rest |-> Tail(rd), read |-> 1]
    ELSE [err |-> "ErrUnexpectedEOF", head |-> <<rd[1]>>, rest |-> Tail(rd), read |-> 1]

\* c.Head.message(): a buffer for the whole message holding the head, or
\* an error for a head that declares an invalid length
HeadMessage(hd) ==
    IF hd[1].valid
    THEN [err |-> Nil, msg |-> hd \o [i \in 1..hd[1].k |-> ZeroTok], memGet |-> 1]
    ELSE [err |-> "invalid body length", msg |-> <<>>, memGet |-> 0]

\* the leading body bytes of rd, at most k of them
RECURSIVE BodyAvail(_, _)
BodyAvail(rd, k) ==
    IF k = 0 \/ rd = <<>> \/ rd[1].t # "body" THEN <<>>
    ELSE <<rd[1]>> \o BodyAvail(Tail(rd), k - 1)

\* io.ReadFull(c.Reader, message[HeadLen:]): fills the body, or the part of
\* it that arrived and an error
ReadBody(rd, message) ==
    LET k   == Len(message) - 1
        got == BodyAvail(rd, k)
        n   == Len(got)
    IN  [err  |-> IF n = k THEN Nil ELSE IF n = 0 THEN "EOF" ELSE "ErrUnexpectedEOF",
         msg  |-> <<message[1]>> \o got \o [i \in 1..(k - n) |-> ZeroTok],
         rest |-> SubSeq(rd, n + 1, Len(rd)),
         read |-> n]

\* Recv with the hook consulted after the head was read
RecvResultHookAfterHead(bh, rd, hd) ==
    LET h == ReadHead(rd, hd)
    IN  IF bh # Nil /\ HookErr(bh) # Nil
        THEN [msg |-> <<>>, err |-> HookErr(bh), memGet |-> 0, read |-> h.read,
              reader |-> h.rest, head |-> h.head]
        ELSE [msg |-> <<>>, err |-> h.err, memGet |-> 0, read |-> h.read,
              reader |-> h.rest, head |-> h.head]

\* what h.Recv(c) returns and leaves behind, given the hook, the reader and
\* the head buffer
RecvResult(bh, rd, hd) ==
    IF bh # Nil /\ HookErr(bh) # Nil
    THEN [msg |-> <<>>, err |-> HookErr(bh), memGet |-> 0, read |-> 0,
          reader |-> rd, head |-> hd]
    ELSE
    LET h == ReadHead(rd, hd)
    IN  IF h.err # Nil
        THEN [msg |-> <<>>, err |-> h.err, memGet |-> 0, read |-> h.read,
              reader |-> h.rest, head |-> h.head]
        ELSE
        LET m == HeadMessage(h.head)
        IN  IF m.err = Nil /\ Len(m.msg) > 1
            THEN LET b == ReadBody(h.rest, m.msg)
                 IN  [msg |-> b.msg, err |-> b.err, memGet |-> m.memGet,
                      read |-> h.read + b.read, reader |-> b.rest, head |-> h.head]
            ELSE [msg |-> m.msg, err |-> m.err, memGet |-> m.memGet,
                  read |-> h.read, reader |-> h.rest, head |-> h.head]

\* h.BeforeRecv(bh)
BeforeRecv(bh) ==
    /\ beforeRecv' = bh
    /\ UNCHANGED <<reader, head, recvRes, sendVars, routeVars, fatal, clientVars, dispVars>>

\* the receive loop calls h.Recv(c); it goes on after a message or a hook's
\* rejection and ends on an error of the stream
Recv ==
    /\ recvRes.err \in {"not called", Nil, "hook"}
    /\ LET r == RecvResult(beforeRecv, reader, head)
       IN  /\ recvRes' = [msg |-> r.msg, err |-> r.err, memGet |-> r.memGet, read |-> r.read]
           /\ reader' = r.reader
           /\ head' = r.head
    /\ UNCHANGED <<beforeRecv, sendVars, routeVars, fatal, clientVars, dispVars>>

InitRecv ==
    /\ InitDispatch
    /\ beforeRecv = Nil
    /\ beforeSend = Nil
    /\ reader \in Streams
    /\ head = <<>>
    /\ recvRes = NoRecv
    /\ conn = <<>>
    /\ sendRes = NoSend
    /\ intBits = 64

NextRecv ==
    \/ \E bh \in Hooks \cup {Nil} : BeforeRecv(bh)
    \/ Recv

SpecRecv == InitRecv /\ [][NextRecv]_vars

\* ------------------------------------------------------------------ Send

\* A byte count is a pair <<q, r>> standing for q * Limb + r with
\* 0 <= r < Limb, so that counts of 2^31 and more, and negative ones, can
\* be told apart: -1 is <<-1, Limb - 1>>.
Limb == 65536
MinusOne == <<-1, Limb - 1>>
Leq(a, b) == a[1] < b[1] \/ (a[1] = b[1] /\ a[2] <= b[2])

\* the widths of int a build can have
IntWidths == {32, 64}

\* int(n64) for 0 <= n64 < 2^63: the value itself where int has 64 bits,
\* its low 32 bits read as a signed number where int has 32
ToInt(n, bits) ==
    IF bits = 64 THEN n
    ELSE LET q == n[1] % Limb
         IN  IF q >= Limb \div 2 THEN <<q - Limb, n[2]>> ELSE <<q, n[2]>>

\* byte counts handed to the send path: 0, 1, 2, 2^31 - 1 and 2^31
SendSizes ==
    {<<0, 0>>, <<0, 1>>, <<0, 2>>, <<Limb \div 2 - 1, Limb - 1>>, <<Limb \div 2, 0>>}
\* the lengths one Message can have
MessageSizes == {s \in SendSizes : s[1] = 0 /\ s[2] > 0}

\* what a write of total bytes can return: all of them written, or fewer
\* and an error
WriteOutcomes(total) ==
    {[n |-> n, err |-> IF n = total THEN Nil ELSE "write"] :
        n \in {s \in SendSizes : Leq(s, total)}}

\* h.BeforeSend(bh)
BeforeSend(bh) ==
    /\ beforeSend' = bh
    /\ UNCHANGED <<conn, sendRes, intBits, recvVars, routeVars, fatal, clientVars, dispVars>>

\* h.Send(conn, m) for a message of sz bytes
Send(sz) ==
    /\ IF beforeSend # Nil /\ HookErr(beforeSend) # Nil
       THEN /\ sendRes' = [op |-> "Send", n |-> MinusOne, err |-> HookErr(beforeSend)]
            /\ conn' = conn
       ELSE /\ Len(conn) < MaxWrites
            /\ \E w \in WriteOutcomes(sz) :
                  /\ conn' = Append(conn, w)
                  /\ sendRes' = [op |-> "Send", n |-> w.n, err |-> w.err]
    /\ UNCHANGED <<beforeSend, intBits, recvVars, routeVars, fatal, clientVars, dispVars>>

\* h.SendN(conn, buffers) for buffers of sz bytes in all
SendN(sz) ==
    /\ IF beforeSend # Nil /\ HookErr(beforeSend) # Nil
       THEN /\ sendRes' = [op |-> "SendN", n |-> MinusOne, err |-> HookErr(beforeSend)]
            /\ conn' = conn
       ELSE /\ Len(conn) < MaxWrites
            /\ \E w \in WriteOutcomes(sz) :
                  /\ conn' = Append(conn, w)
                  /\ sendRes' = [op |-> "SendN", n |-> ToInt(w.n, intBits), err |-> w.err]
    /\ UNCHANGED <<beforeSend, intBits, recvVars, routeVars, fatal, clientVars, dispVars>>

InitSend ==
    /\ InitDispatch
    /\ beforeRecv = Nil
    /\ beforeSend = Nil
    /\ reader = <<>>
    /\ head = <<>>
    /\ recvRes = NoRecv
    /\ conn = <<>>
    /\ sendRes = NoSend
    /\ intBits \in IntWidths

NextSend ==
    \/ \E bh \in Hooks \cup {Nil} : BeforeSend(bh)
    \/ \E sz \in MessageSizes : Send(sz)
    \/ \E sz \in SendSizes : SendN(sz)

SpecSend == InitSend /\ [][NextSend]_vars

\* ----------------------------------------------------------------- Clone

\* the handlers Clone returns
Clones == {"h2"}

\* h2 = h.Clone(): cp is a copy of *h, field by field, and the routes field
\* is a reference to a map
Clone(h, h2) ==
    /\ Running
    /\ AllIdle
    /\ h2 \notin DOMAIN routes
    /\ routes' = MapPut(routes, h2, routes[h])
    /\ UNCHANGED <<heap, fatal, ioVars, clientVars, dispVars>>

\* the requests dispatched through a handler and its clone
CloneMessages == {m \in Messages : Cmd(m) = CmdRequest}

NextClone ==
    \/ \E h \in DOMAIN routes, r \in Registrations : Handle(h, r[1], r[2])
    \/ \E h \in DOMAIN routes, h2 \in Clones : Clone(h, h2)
    \/ \E h \in DOMAIN routes, c \in Clients, msg \in CloneMessages :
           OnMessage(h, "d1", c, msg)
    \/ UserCodeEnds("d1")
    \/ Return("d1")

SpecClone == Init /\ [][NextClone]_vars

\* ------------------------------------------------------- claim vocabulary

\* dispatcher d enters OnMessage in this step
Started(d) == pc[d] = "idle" /\ pc'[d] # "idle"
\* dispatcher d is inside, or has just returned from, OnMessage
Busy(d) == pc[d] # "idle"

IsRequest(msg)  == Cmd(msg) \in {CmdRequest, CmdNotify}
IsResponse(msg) == Cmd(msg) = CmdResponse
SyncCalls(c)  == {s \in DOMAIN calls[c] : calls[c][s].kind = "sync"}
AsyncCalls(c) == {s \in DOMAIN calls[c] : calls[c][s].kind = "async"}

\* ------------------------------------------------------------------- C1

\* C1: when OnMessage has returned, its message was either handed to a
\* session (sent on done) or put back into the pool, exactly once in all.
C1_ReleasedOrHandedOnce ==
    \A d \in Dispatchers :
        pc[d] = "ret" =>
            Count(ev[d], "memPut") + Count(ev[d], "deliver") = 1

\* ------------------------------------------------------------------- C2

\* C2: a panic of the invoked handler or callback does not leave OnMessage:
\* no panic unwinds out of it, the Context and the Message are each released
\* exactly once, and the step in which the user code ends changes nothing but
\* the dispatcher's own position, so every other dispatch goes on as before.
C2_PanicIsolated ==
    /\ [](/\ fatal.op # "OnMessage"
          /\ \A d \in Dispatchers :
                (pc[d] = "ret" /\ Has(ev[d], "panic")) =>
                    /\ Count(ev[d], "ctxPut") = 1
                    /\ Count(ev[d], "memPut") = 1
                    /\ Pos(ev[d], "panic") < Pos(ev[d], "ctxPut"))
    /\ [][\A d \in Dispatchers :
            (pc[d] = "user" /\ pc'[d] # "user") =>
                /\ pc'[d] = "ret"
                /\ fatal' = fatal
                /\ UNCHANGED <<routeVars, clientVars>>
                /\ \A e \in Dispatchers \ {d} :
                      pc'[e] = pc[e] /\ ev'[e] = ev[e]]_vars

\* a panicking async callback has been absorbed while a sibling dispatch of
\* a routed Request ran to its normal end
C2_Witness ==
    \E d, e \in Dispatchers :
        /\ d # e
        /\ pc[d] = "ret" /\ Has(ev[d], "panic") /\ IsResponse(cur[d].msg)
        /\ pc[e] = "ret" /\ Has(ev[e], "return") /\ IsRequest(cur[e].msg)

\* ------------------------------------------------------------------- C3

\* C3: for a blocking call, delivery of the Response and the caller's timeout
\* never both happen: no Response is written into the slot of a call that
\* timed out, and no call times out that had its Response written.
C3_ExactlyOneSide ==
    \A c \in Clients : \A s \in SyncCalls(c) :
        ~(calls[c][s].st = "timedout" /\ calls[c][s].n > 0)

\* ------------------------------------------------------------------- C4

\* C4: the callback of an async call is invoked at most once; an async
\* Response that finds the callback registered invokes it and removes it in
\* the same step, and one that does not is released with no callback invoked.
C4_AsyncAtMostOnce ==
    /\ [](\A c \in Clients : \A s \in AsyncCalls(c) :
            /\ calls[c][s].n <= 1
            /\ (calls[c][s].n = 1 => s \notin DOMAIN asyncHandlerMap[c]))
    /\ [][\A d \in Dispatchers :
            (/\ Started(d)
             /\ IsResponse(cur'[d].msg)
             /\ MethodLen(cur'[d].msg) = 0
             /\ IsAsync(cur'[d].msg)) =>
                LET c == cur'[d].c
                    s == MsgSeq(cur'[d].msg)
                IN  IF s \in DOMAIN asyncHandlerMap[c]
                    THEN /\ pc'[d] = "user"
                         /\ fn'[d] = asyncHandlerMap[c][s]
                         /\ calls'[c][s].n = calls[c][s].n + 1
                         /\ s \notin DOMAIN asyncHandlerMap'[c]
                    ELSE /\ pc'[d] = "ret"
                         /\ ev'[d] = <<"memPut", "warn">>
                         /\ calls' = calls]_vars

\* the callback ran once, and a duplicate Response for the same seq was
\* dropped as not found
C4_Witness ==
    \E d, e \in Dispatchers : \E c \in Clients : \E s \in AsyncCalls(c) :
        /\ d # e
        /\ calls[c][s].n = 1
        /\ pc[d] = "ret" /\ Has(ev[d], "invoke")
        /\ cur[d].c = c /\ MsgSeq(cur[d].msg) = s /\ IsResponse(cur[d].msg)
        /\ pc[e] = "ret" /\ ev[e] = <<"memPut", "warn">>
        /\ cur[e].c = c /\ MsgSeq(cur[e].msg) = s /\ IsResponse(cur[e].msg)
        /\ IsAsync(cur[e].msg)

\* ------------------------------------------------------------------- C5

\* C5: a Response is only ever written into the slot of the session
\* registered under its own seq on its own client, and an async callback
\* that is invoked is the one registered under the Response's seq and gets
\* a Context of that client and that Response.
C5_NoMisrouting ==
    /\ \A d \in Dispatchers :
          pc[d] = "send" => sess[d] = SessionRef(cur[d].c, MsgSeq(cur[d].msg))
    /\ \A c \in Clients : \A s \in SyncCalls(c) :
          \A i \in DOMAIN calls[c][s].done :
              /\ MsgSeq(calls[c][s].done[i]) = s
              /\ IsResponse(calls[c][s].done[i])
              /\ ~IsAsync(calls[c][s].done[i])
    /\ \A d \in Dispatchers :
          (pc[d] = "user" /\ IsResponse(cur[d].msg)) =>
              /\ MsgSeq(cur[d].msg) \in AsyncCalls(cur[d].c)
              /\ fn[d] = calls[cur[d].c][MsgSeq(cur[d].msg)].cb
              /\ ctx[d] = [client |-> cur[d].c, msg |-> cur[d].msg]

\* the Response of the second call arrived and was delivered to the second
\* call's slot before any Response of the first call
C5_Witness ==
    \E c \in Clients :
        /\ {1, 2} \subseteq SyncCalls(c)
        /\ calls[c][1].n = 0
        /\ calls[c][2].n = 1
        /\ calls[c][2].done # <<>>

\* ------------------------------------------------------------------- C6

\* C6: once a Response was written into a call's slot or its callback was
\* taken, or once the call timed out or expired, its seq is in neither the
\* Session table nor the Async table.
C6_AbsentAfterResolution ==
    \A c \in Clients : \A s \in DOMAIN calls[c] :
        (calls[c][s].n > 0 \/ calls[c][s].st \in {"got", "timedout", "fired", "expired"})
            => (s \notin DOMAIN sessionMap[c] /\ s \notin DOMAIN asyncHandlerMap[c])

\* ------------------------------------------------------------------- C7

\* C7: OnMessage of a Request or Notify with method length 0 returns at once
\* having only logged: no handler invoked, no Context acquired, neither
\* table (nor any call's slot) changed, whatever the route table holds.
C7_EmptyMethodDropped ==
    [][\A d \in Dispatchers :
          (Started(d) /\ IsRequest(cur'[d].msg) /\ MethodLen(cur'[d].msg) = 0) =>
              /\ pc'[d] = "ret"
              /\ ev'[d] = <<"warn">>
              /\ ctx'[d] = ctx[d] /\ fn'[d] = fn[d]
              /\ UNCHANGED clientVars]_vars

\* such a Request was dropped although a handler is registered under ""
\* and a session is pending
C7_Witness ==
    \E d \in Dispatchers :
        /\ pc[d] = "ret"
        /\ IsRequest(cur[d].msg) /\ MethodLen(cur[d].msg) = 0
        /\ <<>> \in DOMAIN Lookup(cur[d].h)
        /\ DOMAIN sessionMap[cur[d].c] # {}

\* ------------------------------------------------------------------- C8

\* C8: OnMessage of a Response with nonzero method length returns at once
\* having only logged: both tables and every call's slot are unchanged and
\* no callback is invoked, whatever its seq and async flag.
C8_ResponseWithMethodDropped ==
    [][\A d \in Dispatchers :
          (Started(d) /\ IsResponse(cur'[d].msg) /\ MethodLen(cur'[d].msg) > 0) =>
              /\ pc'[d] = "ret"
              /\ ev'[d] = <<"warn">>
              /\ ctx'[d] = ctx[d] /\ fn'[d] = fn[d] /\ sess'[d] = sess[d]
              /\ UNCHANGED clientVars]_vars

\* such a Response was dropped while a session, or a callback, was
\* registered under its seq
C8_Witness ==
    \E d \in Dispatchers :
        /\ pc[d] = "ret"
        /\ IsResponse(cur[d].msg) /\ MethodLen(cur[d].msg) > 0
        /\ \/ ~IsAsync(cur[d].msg) /\ MsgSeq(cur[d].msg) \in DOMAIN sessionMap[cur[d].c]
           \/ IsAsync(cur[d].msg) /\ MsgSeq(cur[d].msg) \in DOMAIN asyncHandlerMap[cur[d].c]

\* ------------------------------------------------------------------- C9

\* C9: Handle(method, cb) panics exactly when method is already registered
\* or longer than MaxMethodLen, and then the route table looks up as before;
\* otherwise it does not panic and the table is the old one with method
\* mapped to cb.
C9_HandleFailsFast ==
    [][\A h \in Handlers : \A r \in Registrations :
          Handle(h, r[1], r[2]) =>
              IF r[1] \in DOMAIN Lookup(h) \/ Len(r[1]) > MaxMethodLen
              THEN /\ fatal'.op = "Handle"
                   /\ fatal'.method = r[1]
                   /\ Lookup(h)' = Lookup(h)
              ELSE /\ fatal' = NoPanic
                   /\ Lookup(h)' = MapPut(Lookup(h), r[1], r[2])]_vars

\* a second registration of a method has panicked and the first is still
\* the one looked up
C9_Witness ==
    /\ fatal.op = "Handle"
    /\ fatal.err = "handler exist"
    /\ \E h \in Handlers : fatal.method \in DOMAIN Lookup(h)

\* ------------------------------------------------------------------ C10

\* C10: OnMessage of a Request or Notify with a non-empty method that has
\* no handler returns having put the message back once and logged, and
\* nothing else: no handler, no Context, no table change, nothing sent.
C10_NoHandlerReleased ==
    [][\A d \in Dispatchers :
          (/\ Started(d)
           /\ IsRequest(cur'[d].msg)
           /\ MethodLen(cur'[d].msg) > 0
           /\ Method(cur'[d].msg) \notin DOMAIN Lookup(cur'[d].h)) =>
              /\ pc'[d] = "ret"
              /\ ev'[d] = <<"memPut", "warn">>
              /\ ctx'[d] = ctx[d] /\ fn'[d] = fn[d]
              /\ UNCHANGED clientVars]_vars

\* such a Request was released while another method is routed and a
\* session is pending
C10_Witness ==
    \E d \in Dispatchers :
        /\ pc[d] = "ret"
        /\ Cmd(cur[d].msg) = CmdRequest /\ MethodLen(cur[d].msg) > 0
        /\ Method(cur[d].msg) \notin DOMAIN Lookup(cur[d].h)
        /\ DOMAIN Lookup(cur[d].h) # {}
        /\ ev[d] = <<"memPut", "warn">>
        /\ DOMAIN sessionMap[cur[d].c] # {}

\* ------------------------------------------------------------------ C11

\* C11: OnMessage of a frame whose command is none of Request, Notify,
\* Response returns normally having put the message back once and logged,
\* and nothing else: no handler or callback, no panic, no change to the
\* route table, to either correlator table or to any other dispatch, so
\* the frames that follow are dispatched from the same state.
C11_UnknownCmdReleased ==
    [][\A d \in Dispatchers :
          (Started(d) /\ ~IsRequest(cur'[d].msg) /\ ~IsResponse(cur'[d].msg)) =>
              /\ pc'[d] = "ret"
              /\ ev'[d] = <<"memPut", "info">>
              /\ ctx'[d] = ctx[d] /\ fn'[d] = fn[d] /\ sess'[d] = sess[d]
              /\ fatal' = fatal
              /\ UNCHANGED <<routeVars, clientVars>>
              /\ \A e \in Dispatchers \ {d} : pc'[e] = pc[e] /\ ev'[e] = ev[e]]_vars

\* such a frame was released while a call is pending, and the other
\* dispatcher is running the handler of a routed Request
C11_Witness ==
    \E d, e \in Dispatchers :
        /\ d # e
        /\ pc[d] = "ret" /\ Cmd(cur[d].msg) = CmdNone
        /\ ev[d] = <<"memPut", "info">>
        /\ DOMAIN sessionMap[cur[d].c] # {}
        /\ pc[e] = "user" /\ IsRequest(cur[e].msg)

\* the receiver, client and message of the OnMessage call d is in
CurH(d)   == cur[d].h
CurC(d)   == cur[d].c
CurMsg(d) == cur[d].msg
\* where the invoked user code ended in a trace
EndPos(tr) == CHOOSE i \in DOMAIN tr : tr[i] \in {"return", "panic"}
\* the call of d is a Request or Notify with a method that is routed
Routed(d) ==
    /\ IsRequest(CurMsg(d))
    /\ MethodLen(CurMsg(d)) > 0
    /\ Method(CurMsg(d)) \in DOMAIN Lookup(CurH(d))

\* ------------------------------------------------------------------ C14

\* C14: OnMessage never waits for another task: whenever it is about to
\* send a Response on a session's done channel, the channel has room.
C14_DispatchNeverWaits ==
    \A d \in Dispatchers :
        pc[d] = "send" =>
            Len(calls[sess[d].c][sess[d].seq].done) < DoneCap

\* ------------------------------------------------------------------ C15

\* C15: at most one Response is ever written into the slot of a session.
C15_SlotSingleUse ==
    \A c \in Clients : \A s \in SyncCalls(c) : calls[c][s].n <= 1

\* ------------------------------------------------------------------ C16

\* C16: a Request or Notify with a non-empty method registered via Handle
\* has exactly the handler registered under that method invoked, once, with
\* a Context of the receiving client and that message; a handler that runs
\* for a Request or Notify is never another one.
C16_RoutedToItsHandler ==
    \A d \in Dispatchers :
        /\ (pc[d] = "user" /\ IsRequest(CurMsg(d))) => Routed(d)
        /\ (Busy(d) /\ Routed(d)) =>
              /\ Count(ev[d], "invoke") = 1
              /\ fn[d] = Lookup(CurH(d))[Method(CurMsg(d))]
              /\ ctx[d] = [client |-> CurC(d), msg |-> CurMsg(d)]

\* a Notify was routed to the handler of its method while another method
\* is registered with a different handler
C16_Witness ==
    \E d \in Dispatchers :
        /\ pc[d] = "ret"
        /\ Cmd(CurMsg(d)) = CmdNotify
        /\ Routed(d)
        /\ Count(ev[d], "invoke") = 1
        /\ \E m \in DOMAIN Lookup(CurH(d)) : Lookup(CurH(d))[m] # fn[d]

\* ------------------------------------------------------------------ C17

\* C17: within one OnMessage a Context is acquired at most once, only on
\* the routed-request and matched-async-response paths and before the
\* invocation, and it is released exactly once, after the user code has
\* ended; every returned OnMessage has released as many as it acquired.
C17_ContextsBalanced ==
    \A d \in Dispatchers :
        Busy(d) =>
            /\ Count(ev[d], "ctxGet") <= 1
            /\ Has(ev[d], "ctxGet") <=> Has(ev[d], "invoke")
            /\ Has(ev[d], "ctxGet") =>
                  /\ Pos(ev[d], "ctxGet") < Pos(ev[d], "invoke")
                  /\ \/ Routed(d)
                     \/ /\ IsResponse(CurMsg(d)) /\ IsAsync(CurMsg(d))
                        /\ MethodLen(CurMsg(d)) = 0
                        /\ MsgSeq(CurMsg(d)) \in AsyncCalls(CurC(d))
            /\ pc[d] = "user" => ~Has(ev[d], "ctxPut")
            /\ pc[d] = "ret" =>
                  /\ Count(ev[d], "ctxPut") = Count(ev[d], "ctxGet")
                  /\ Has(ev[d], "ctxPut") => EndPos(ev[d]) < Pos(ev[d], "ctxPut")

\* one dispatch acquired and released a Context for an async callback,
\* another delivered into a session slot without one
C17_Witness ==
    \E d, e \in Dispatchers :
        /\ pc[d] = "ret" /\ IsResponse(CurMsg(d))
        /\ Count(ev[d], "ctxGet") = 1 /\ Count(ev[d], "ctxPut") = 1
        /\ pc[e] = "ret" /\ Has(ev[e], "deliver") /\ ~Has(ev[e], "ctxGet")

\* ------------------------------------------------------------------ C20

\* C20: while the invoked user code runs neither its Context nor its
\* Message has been released; after it returned, or its panic was
\* recovered, the Context is released and then the Message; a message
\* sent into a session slot is not released by OnMessage.
C20_ReleaseAfterUserCode ==
    \A d \in Dispatchers :
        /\ pc[d] = "user" => (~Has(ev[d], "ctxPut") /\ ~Has(ev[d], "memPut"))
        /\ (pc[d] = "ret" /\ Has(ev[d], "invoke")) =>
              /\ Count(ev[d], "memPut") = 1
              /\ Count(ev[d], "ctxPut") = 1
              /\ EndPos(ev[d]) < Pos(ev[d], "ctxPut")
              /\ Pos(ev[d], "ctxPut") < Pos(ev[d], "memPut")
              /\ Has(ev[d], "panic") =>
                    /\ Has(ev[d], "recover")
                    /\ Pos(ev[d], "panic") < Pos(ev[d], "recover")
                    /\ Pos(ev[d], "recover") < Pos(ev[d], "ctxPut")
        /\ (Busy(d) /\ Has(ev[d], "deliver")) => ~Has(ev[d], "memPut")

\* a handler is still running with its message unreleased while another
\* dispatch has released after a recovered panic
C20_Witness ==
    \E d, e \in Dispatchers :
        /\ pc[d] = "user" /\ ~Has(ev[d], "memPut")
        /\ pc[e] = "ret"
        /\ ev[e] = <<"ctxGet", "invoke", "panic", "recover", "ctxPut", "memPut">>

\* ------------------------------------------------------------------ C12

\* a message all of whose declared bytes were read
FullyRead(m) ==
    /\ m # <<>>
    /\ m[1].t = "head" /\ m[1].valid
    /\ Len(m) = 1 + m[1].k
    /\ \A i \in 2..Len(m) : m[i] = BodyTok(i - 1)

\* C12: Recv returns a fully read Message and a nil error, or an error and
\* no Message.
C12_MessageOrError ==
    recvRes.err # "not called" =>
        \/ recvRes.err = Nil /\ FullyRead(recvRes.msg)
        \/ recvRes.err # Nil /\ recvRes.msg = <<>>

\* ------------------------------------------------------------------ C18

\* C18: when the installed pre-receive hook returns an error, Recv returns
\* that error and no message, reads nothing from the reader, leaves the
\* head buffer as it was and takes no buffer from the pool; reader and head
\* being unchanged, the next Recv starts from the same bytes.
C18_HookRejectsBeforeReading ==
    [][(Recv /\ beforeRecv # Nil /\ HookErr(beforeRecv) # Nil) =>
          /\ recvRes' = [msg |-> <<>>, err |-> HookErr(beforeRecv),
                         memGet |-> 0, read |-> 0]
          /\ reader' = reader
          /\ head' = head]_vars

\* a hook rejected a Recv while a whole frame with a body was waiting, the
\* frame after the one the previous Recv had left in the head buffer
C18_Witness ==
    /\ recvRes.err = "hook"
    /\ head # <<>>
    /\ reader # <<>>
    /\ reader[1].t = "head" /\ reader[1].valid /\ reader[1].k > 0
    /\ Len(reader) > reader[1].k

\* ------------------------------------------------------------------ C13

\* a call of Send or of SendN
SendStep == (\E sz \in MessageSizes : Send(sz)) \/ (\E sz \in SendSizes : SendN(sz))

\* C13: a Send or SendN whose installed pre-send hook returns an error
\* returns -1 and that error and writes nothing; otherwise the write is
\* attempted once and its byte count and error are what is returned.
C13_VetoOrWriteResult ==
    [][SendStep =>
          IF beforeSend # Nil /\ HookErr(beforeSend) # Nil
          THEN /\ sendRes'.n = MinusOne
               /\ sendRes'.err = HookErr(beforeSend)
               /\ conn' = conn
          ELSE /\ Len(conn') = Len(conn) + 1
               /\ sendRes'.n = conn'[Len(conn')].n
               /\ sendRes'.err = conn'[Len(conn')].err]_vars

\* ------------------------------------------------------------------ C19

\* C19: a handler and its clone are independent in routing: a registration
\* with Handle on one of them leaves the methods the other dispatches as
\* they were.
C19_CloneIndependent ==
    [][\A x \in DOMAIN routes : \A y \in DOMAIN routes \ {x} :
          \A r \in Registrations :
              Handle(x, r[1], r[2]) => Lookup(y)' = Lookup(y)]_vars

====
